---- MODULE Spec2Model ----
(***************************************************************************)
(* A model of dhardy/rand_design: eleven explorations of how a basic       *)
(* generator trait (Rng) and a fallible, secure one (CryptoRng) can relate. *)
(*                                                                         *)
(* Part I  models the byte-fill helper of src/traits/marker_only.rs as a    *)
(*         step machine over a heap that holds the destination slice.      *)
(* Part II models the trait designs (impl blocks, bridges, trait objects)   *)
(*         as impl tables run by a call-stack machine.                     *)
(***************************************************************************)
EXTENDS Integers, Sequences, FiniteSets, TLC

VARIABLES
    \* ---- Part I: marker_only.rs ----
    host,     \* byte order of the build target: "le" or "be"
    rng,      \* the generator: [ty, w, n]: its type, its field .0, its counter
    pc,       \* position of the fill call
    op,       \* the Rng method the caller invoked: "fill" or "try_fill"
    L,        \* dest.len()
    heap,     \* memory from &dest[0] on; dest is heap[0 .. L-1]
    p,        \* the raw pointer p, as an offset from &dest[0]
    len,      \* the local `len`
    ret,      \* what the call returned: "none", "unit", "Ok"
    calls,    \* fill calls made so far
    \* ghost state of Part I
    drawn,    \* the words next_u64 returned during this call, in order
    iters,    \* loop iterations of this call
    writes,   \* per heap offset, how often this call stored to it
    copy,     \* the last copy_nonoverlapping: [r, n, src, dst]
    rng0,     \* the generator as it was when the call began
    prev,     \* the fill call before this one: [some, L, dest, drawn, rng0]
    \* ---- Part II: the trait designs ----
    design,   \* the source file whose traits and impls are in force
    obj,      \* the type of the value at hand, outermost layer first
    gst,      \* the field .0 (or counter) of the generator underneath
    last,     \* the record of the latest capability call
    ncalls,   \* capability calls made on this generator
    aborted,  \* the process died in a panic
    \* ghost state of Part II
    seed0,    \* the generator's state when it was made
    ndraws,   \* how often the generator's own method has run
    nbridged, \* how many of the calls went through an adaptor over a borrow
    \* ---- Part III: generators built from the helpers of marker_only.rs ----
    hgen,     \* the generator: [ty, n]: its type and how far its source is
    halign,   \* whether the build put `buf` at a multiple of 8
    hstack,   \* the frames of the calls in progress, innermost last
    hret,     \* what the call that just ended handed back: [k, v]
    hop,      \* the method the caller invoked: "none", "next_u64", "fill"
    hcalls,   \* calls the caller has made
    \* ghost state of Part III
    hgen0,    \* the generator as it was when the caller's call began
    hfills,   \* fill calls entered during the caller's call
    hwords,   \* words the source gave during the caller's call
    hbuf      \* the bytes fill left in the buf of the caller's next_u64

fvars == <<host, rng, pc, op, L, heap, p, len, ret, calls,
           drawn, iters, writes, copy, rng0, prev>>

dvars == <<design, obj, gst, last, ncalls, aborted, seed0, ndraws, nbridged>>

hvars == <<hgen, halign, hstack, hret, hop, hcalls, hgen0, hfills, hwords, hbuf>>

vars == <<fvars, dvars, hvars>>

\* ------------------------------------------------------------------ bounds

\* Longest destination slice tried: covers 0, 1, W-1, W, W+1, 2W, 2W+1.
MaxLen == 17
\* Fill calls one run makes on one generator.
MaxCalls == 2

\* ------------------------------------------------------------ Part I: data

\* size_of::<u64>()
WordBytes == 8

\* A u8. A u64 is its eight base-256 digits, least significant first.
Byte == 0 .. 255

\* cmp::min
Min(a, b) == IF a < b THEN a ELSE b

\* u64::swap_bytes
Reverse(s) == [i \in 1 .. Len(s) |-> s[Len(s) + 1 - i]]

\* TestRng(0x20216F6C6C6548) of main
HelloWord == <<72, 101, 108, 108, 111, 33, 32, 0>>
\* TestCRng(0x3F556572416F6857) of main
WhoWord == <<87, 104, 111, 65, 114, 101, 85, 63>>

\* The n-th word of a generator whose successive words differ.
CounterWord(n) == [i \in 1 .. WordBytes |-> (16 * n + i) % 256]

\* The n-th word of a generator whose successive words differ in their most
\* significant byte only: 0x0007070707070707 + (n << 56).
HighWord(n) == [i \in 1 .. WordBytes |-> IF i = WordBytes THEN n % 256 ELSE 7]

\* u64::to_le: the identity on a little-endian target, swap_bytes on a
\* big-endian one.
ToBe(h, x) == IF h = "be" THEN x ELSE Reverse(x)
ToLe(h, x) == IF h = "le" THEN x ELSE Reverse(x)

\* Memory read as if every target were little-endian.
MemBytesAssumeLe(h, x) == x

\* The bytes of a u64 in memory, lowest address first, as `&x as *const u64
\* as *const u8` reads them.
MemBytes(h, x) == IF h = "le" THEN x ELSE Reverse(x)

\* Rng::next_u64: <<the word returned, the generator afterwards>>.
\* TestRng and TestCRng return self.0 and keep it.
NextU64(g) ==
    CASE g.ty = "CounterRng" -> <<CounterWord(g.n), [g EXCEPT !.n = g.n + 1]>>
      [] g.ty = "HighRng" -> <<HighWord(g.n), [g EXCEPT !.n = g.n + 1]>>
      [] OTHER -> <<g.w, g>>

HeapSize == 2 * MaxLen + WordBytes
Heap0 == [a \in 0 .. HeapSize - 1 |-> 0]
NoWrites == [a \in 0 .. HeapSize - 1 |-> 0]
NoCopy == [r |-> 0, n |-> 0, src |-> 0, dst |-> 0]
NoPrev == [some |-> FALSE, L |-> 0, dest |-> <<>>, drawn |-> <<>>,
           rng0 |-> [ty |-> "none", w |-> <<>>, n |-> 0]]

\* A copy that always moves a whole word.
CopyLenWhole(l) == WordBytes

\* n = min(len, size_of::<u64>())
CopyLen(l) == Min(l, WordBytes)

\* copy_nonoverlapping(xp, p, n): n bytes from xp to p.
CopyNonoverlapping(h, xbytes, at, n) ==
    [a \in 0 .. HeapSize - 1 |->
        IF a >= at /\ a < at + n /\ a - at < Len(xbytes)
        THEN xbytes[a - at + 1] ELSE h[a]]

\* A loop that counts bytes one at a time while copying n.
LenAfterOne(l, n) == l - 1

\* len -= n
LenAfter(l, n) == l - n

\* The loop of impl_fill_from_u64 run to its end from generator g, pointer p
\* and remaining length l: what fill leaves behind.
RECURSIVE FillLoop(_, _, _, _, _, _)
FillLoop(h, g, hp, at, l, k) ==
    IF l > 0
    THEN LET d == NextU64(g)
             x == ToLe(h, d[1])
             xbytes == MemBytes(h, x)
             n == CopyLen(l)
         IN FillLoop(h, d[2], CopyNonoverlapping(hp, xbytes, at, n), at + n,
                     LenAfter(l, n), k + 1)
    ELSE [k |-> "unit", heap |-> hp, rng |-> g, draws |-> k]

\* impl_fill_from_u64(rng, dest) as one call, dest being hp[0 .. l-1].
ImplFillFromU64(h, g, hp, l) ==
    IF l = 0
    THEN [k |-> "panic", heap |-> hp, rng |-> g, draws |-> 0]
    ELSE FillLoop(h, g, hp, 0, l, 0)

\* A default try_fill that reports failure.
TryFillErr(r) == IF r = "unit" THEN "Err" ELSE r

\* The default Rng::try_fill: self.fill(dest); Ok(())
TryFill(r) == IF r = "unit" THEN "Ok" ELSE r

\* No call of Part II has been made.
NoCall == [tr |-> "none", ty |-> <<>>, pre |-> 0, out |-> [k |-> "none", v |-> 0],
           st |-> 0, draws |-> 0, path |-> <<>>, esc |-> "none",
           own |-> [k |-> "none", v |-> 0]]

\* Nothing handed back.
NoRet == [k |-> "none", v |-> <<>>]

\* Part III at rest.
HIdle ==
    /\ hgen = [ty |-> "none", n |-> 0]
    /\ halign = TRUE
    /\ hstack = <<>>
    /\ hret = NoRet
    /\ hop = "none"
    /\ hcalls = 0
    /\ hgen0 = hgen
    /\ hfills = 0
    /\ hwords = 0
    /\ hbuf = <<>>

\* Part II at rest, while Part I runs.
DIdle ==
    /\ design = "marker_only"
    /\ obj = <<"TestRng">>
    /\ gst = 0
    /\ last = NoCall
    /\ ncalls = 0
    /\ aborted = FALSE
    /\ seed0 = 0
    /\ ndraws = 0
    /\ nbridged = 0

\* ---------------------------------------------------------- Part I: steps

FillInit ==
    /\ host \in {"le", "be"}
    /\ rng \in {[ty |-> "TestRng", w |-> HelloWord, n |-> 0],
                [ty |-> "TestCRng", w |-> WhoWord, n |-> 0],
                [ty |-> "CounterRng", w |-> CounterWord(0), n |-> 0],
                [ty |-> "HighRng", w |-> HighWord(0), n |-> 0]}
    /\ pc = "idle"
    /\ op = "fill"
    /\ L = 0
    /\ heap = Heap0
    /\ p = 0
    /\ len = 0
    /\ ret = "none"
    /\ calls = 0
    /\ drawn = <<>>
    /\ iters = 0
    /\ writes = NoWrites
    /\ copy = NoCopy
    /\ rng0 = rng
    /\ prev = NoPrev
    /\ DIdle
    /\ HIdle

\* The caller: `let mut buf = [0u8; n]; t.fill(&mut buf)` or t.try_fill.
\* TestRng::fill passes self and dest on to impl_fill_from_u64; the default
\* try_fill calls self.fill(dest) first.
Call(m, n) ==
    /\ UNCHANGED <<dvars, hvars>>
    /\ pc = "idle"
    /\ calls < MaxCalls
    /\ calls' = calls + 1
    /\ op' = m
    /\ L' = n
    /\ heap' = Heap0
    /\ pc' = "entry"
    /\ ret' = "none"
    /\ drawn' = <<>>
    /\ iters' = 0
    /\ writes' = NoWrites
    /\ copy' = NoCopy
    /\ rng0' = rng
    /\ prev' = IF calls = 0 THEN NoPrev
               ELSE [some |-> TRUE, L |-> L, dest |-> [i \in 1 .. L |-> heap[i - 1]],
                     drawn |-> drawn, rng0 |-> rng0]
    /\ p' = 0
    /\ len' = 0
    /\ UNCHANGED <<host, rng>>

CallFill == \E n \in 0 .. MaxLen : Call("fill", n)

CallTryFill == \E n \in 0 .. MaxLen : Call("try_fill", n)

\* let mut p = &mut dest[0] as *mut u8; let mut len = dest.len();
\* Indexing an empty slice panics.
FillEntry ==
    /\ UNCHANGED <<dvars, hvars>>
    /\ pc = "entry"
    /\ IF L = 0
       THEN /\ pc' = "panic"
            /\ UNCHANGED <<p, len>>
       ELSE /\ pc' = "loop"
            /\ p' = 0
            /\ len' = L
    /\ UNCHANGED <<host, rng, op, L, heap, ret, calls,
                   drawn, iters, writes, copy, rng0, prev>>

\* One iteration of `while len > 0 { ... }`.
FillIter ==
    /\ UNCHANGED <<dvars, hvars>>
    /\ pc = "loop"
    /\ len > 0
    /\ LET d == NextU64(rng)
           x == ToLe(host, d[1])
           xbytes == MemBytes(host, x)
           n == CopyLen(len)
       IN /\ rng' = d[2]
          /\ drawn' = Append(drawn, d[1])
          /\ heap' = CopyNonoverlapping(heap, xbytes, p, n)
          /\ writes' = [a \in 0 .. HeapSize - 1 |->
                          IF a >= p /\ a < p + n THEN writes[a] + 1
                          ELSE writes[a]]
          /\ copy' = [r |-> len, n |-> n, src |-> n, dst |-> p]
          /\ p' = p + n
          /\ len' = LenAfter(len, n)
    /\ iters' = iters + 1
    /\ UNCHANGED <<host, pc, op, L, ret, calls, rng0, prev>>

\* The loop test fails: impl_fill_from_u64 and fill return; the default
\* try_fill then returns Ok(()).
FillExit ==
    /\ UNCHANGED <<dvars, hvars>>
    /\ pc = "loop"
    /\ len <= 0
    /\ pc' = "done"
    /\ ret' = IF op = "try_fill" THEN TryFill("unit") ELSE "unit"
    /\ UNCHANGED <<host, rng, op, L, heap, p, len, calls,
                   drawn, iters, writes, copy, rng0, prev>>

\* The caller goes on after the call returned.
FillReturn ==
    /\ UNCHANGED <<dvars, hvars>>
    /\ pc = "done"
    /\ pc' = "idle"
    /\ UNCHANGED <<host, rng, op, L, heap, p, len, ret, calls,
                   drawn, iters, writes, copy, rng0, prev>>

FillStep == FillEntry \/ FillIter \/ FillExit

FillNext == CallFill \/ CallTryFill \/ FillEntry \/ FillIter \/ FillExit
            \/ FillReturn

\* The call runs on one thread with no suspension point: a call that can
\* take its next step takes it.
SpecFill == FillInit /\ [][FillNext]_vars /\ WF_vars(FillStep)

\* ----------------------------------------------------- Part II: the impls

\* Layers of a generator type and types under them. A type is the sequence of
\* its layers, outermost first, ending in the concrete generator:
\*   AsRng<&mut dyn CryptoRng> over TestCRng is
\*   <<"AsRng", "Ref", "Dyn:CryptoRng", "TestCRng">>.
\* "Ref" is &'a mut _; "Dyn:T" is the trait object dyn T; the other layers
\* are the adaptor structs. AsRRng, AsCRngRef and raw_explicit's AsRng hold
\* `rng: &'a mut CR`, the others hold `rng: CR`.

\* One impl block (or, for a prim, the method body a generator writes itself).
\*   tr     the trait implemented
\*   pat    "base": for the concrete type `name`; "wrap": for name<X>;
\*          "any": for every X (a blanket impl)
\*   bound  the trait X must implement
\*   on     "prim": the body yields the generator's own next word;
\*          "self" / "inner": the body calls `callee` on self / on the wrapped X
\*   post   what the body does with the callee's result
Impl(id, tr, pat, name, bound, on, callee, post) ==
    [id |-> id, tr |-> tr, pat |-> pat, name |-> name, bound |-> bound,
     on |-> on, callee |-> callee, post |-> post]

Prim(id, tr, name) == Impl(id, tr, "base", name, "none", "prim", "none", "id")

\* ---- separate_explicit_Rng.rs
SE_RefCryptoRng == Impl("SE.RefCryptoRng", "CryptoRng", "wrap", "Ref", "CryptoRng", "inner", "CryptoRng", "id")
SE_RefRng_Unwrapping == Impl("SE.RefRng", "Rng", "wrap", "Ref", "CryptoRng", "inner", "CryptoRng", "unwrap")
SE_RefRng == Impl("SE.RefRng", "Rng", "wrap", "Ref", "Rng", "inner", "Rng", "id")
SE_AsRng_OnSelf == Impl("SE.AsRng", "Rng", "wrap", "AsRng", "CryptoRng", "self", "Rng", "id")
SE_AsRng_OrDefault == Impl("SE.AsRng", "Rng", "wrap", "AsRng", "CryptoRng", "inner", "CryptoRng", "unwrap_or_default")
SE_AsRng == Impl("SE.AsRng", "Rng", "wrap", "AsRng", "CryptoRng", "inner", "CryptoRng", "unwrap")
SE_AsCRng_OnSelf == Impl("SE.AsCRng", "CryptoRng", "wrap", "AsCRng", "Rng", "self", "CryptoRng", "id")
SE_AsCRng == Impl("SE.AsCRng", "CryptoRng", "wrap", "AsCRng", "Rng", "inner", "Rng", "ok")
SE_TestRng == Prim("SE.TestRng", "Rng", "TestRng")
SE_TestCRng == Prim("SE.TestCRng", "CryptoRng", "TestCRng")
SE_TestBothRng_Rng == Prim("SE.TestBothRng.Rng", "Rng", "TestBothRng")
SE_TestBothRng_CryptoRng == Prim("SE.TestBothRng.CryptoRng", "CryptoRng", "TestBothRng")

\* ---- separate_implicit_Rng.rs
SI_RngIsCryptoRng == Impl("SI.RngIsCryptoRng", "CryptoRng", "any", "R", "Rng", "self", "Rng", "ok")
SI_RefRng == Impl("SI.RefRng", "Rng", "wrap", "Ref", "CryptoRng", "inner", "CryptoRng", "unwrap")
SI_AsRng == Impl("SI.AsRng", "Rng", "wrap", "AsRng", "CryptoRng", "inner", "CryptoRng", "unwrap")
SI_TestRng == Prim("SI.TestRng", "Rng", "TestRng")
SI_TestCRng == Prim("SI.TestCRng", "CryptoRng", "TestCRng")

\* ---- separate_implicit_Rng2.rs
SI2_CryptoRngIsRng == Impl("SI2.CryptoRngIsRng", "Rng", "any", "CR", "CryptoRng", "self", "CryptoRng", "unwrap")
SI2_RefCryptoRng == Impl("SI2.RefCryptoRng", "CryptoRng", "wrap", "Ref", "Rng", "inner", "Rng", "ok")
SI2_AsCRng == Impl("SI2.AsCRng", "CryptoRng", "wrap", "AsCRng", "Rng", "inner", "Rng", "ok")
SI2_TestRng == Prim("SI2.TestRng", "Rng", "TestRng")
SI2_TestCRng == Prim("SI2.TestCRng", "CryptoRng", "TestCRng")

\* ---- separate_implicit_Rng3.rs
SI3_CryptoRngIsRng == Impl("SI3.CryptoRngIsRng", "Rng", "any", "CR", "CryptoRng", "self", "CryptoRng", "unwrap")
SI3_RefCryptoRng == Impl("SI3.RefCryptoRng", "CryptoRng", "wrap", "Ref", "CryptoRng", "inner", "CryptoRng", "id")
SI3_AsCRng == Impl("SI3.AsCRng", "CryptoRng", "wrap", "AsCRng", "Rng", "inner", "Rng", "ok")
SI3_AsCRngRef == Impl("SI3.AsCRngRef", "CryptoRng", "wrap", "AsCRngRef", "Rng", "inner", "Rng", "ok")
SI3_TestRng == Prim("SI3.TestRng", "Rng", "TestRng")
SI3_TestCRng == Prim("SI3.TestCRng", "CryptoRng", "TestCRng")

\* ---- extends_CryptoRng2.rs (trait Rng: CryptoRng)
EC2_RngIsCryptoRng == Impl("EC2.RngIsCryptoRng", "CryptoRng", "any", "R", "Rng", "self", "Rng", "ok")
EC2_RefRng_OrDefault == Impl("EC2.RefRng", "Rng", "wrap", "Ref", "CryptoRng", "inner", "CryptoRng", "unwrap_or_default")
EC2_RefRng == Impl("EC2.RefRng", "Rng", "wrap", "Ref", "CryptoRng", "inner", "CryptoRng", "unwrap")
EC2_AsRng == Impl("EC2.AsRng", "Rng", "wrap", "AsRng", "CryptoRng", "inner", "CryptoRng", "unwrap")
EC2_TestRng == Prim("EC2.TestRng", "Rng", "TestRng")
EC2_TestCRng == Prim("EC2.TestCRng", "CryptoRng", "TestCRng")

\* ---- extends_CryptoRng3.rs (trait Rng: CryptoRng)
EC3_RngIsCryptoRng_OnSelf == Impl("EC3.RngIsCryptoRng", "CryptoRng", "any", "R", "Rng", "self", "CryptoRng", "id")
EC3_RngIsCryptoRng == Impl("EC3.RngIsCryptoRng", "CryptoRng", "any", "R", "Rng", "self", "Rng", "ok")
EC3_AsRRng == Impl("EC3.AsRRng", "Rng", "wrap", "AsRRng", "CryptoRng", "inner", "CryptoRng", "unwrap")
EC3_TestRng == Prim("EC3.TestRng", "Rng", "TestRng")
EC3_TestCRng == Prim("EC3.TestCRng", "CryptoRng", "TestCRng")

\* ---- extends_Rng.rs (trait CryptoRng: Rng, try_next_u32 has a default body)
ER_RefRng == Impl("ER.RefRng", "Rng", "wrap", "Ref", "Rng", "inner", "Rng", "id")
ER_AsCRng_Rng == Impl("ER.AsCRng.Rng", "Rng", "wrap", "AsCRng", "Rng", "inner", "Rng", "id")
ER_AsCRng_CryptoRng == Impl("ER.AsCRng.CryptoRng", "CryptoRng", "wrap", "AsCRng", "Rng", "inner", "Rng", "ok")
ER_TestRng == Prim("ER.TestRng", "Rng", "TestRng")
ER_TestCRng_Rng == Prim("ER.TestCRng.Rng", "Rng", "TestCRng")
\* `impl CryptoRng for TestCRng {}`: the default body, Ok(self.next_u32())
ER_TestCRng_CryptoRng == Impl("ER.TestCRng.CryptoRng", "CryptoRng", "base", "TestCRng", "none", "self", "Rng", "ok")

\* ---- raw_rng.rs (RawErr is RawRng<CryptoError>, RawNever is RawRng<!>;
\*      trait Rng: RawRng<!>)
RR_RngIsRawNever_OnSelf == Impl("RR.RngIsRawNever", "RawNever", "any", "R", "Rng", "self", "RawNever", "id")
RR_RngIsRawNever == Impl("RR.RngIsRawNever", "RawNever", "any", "R", "Rng", "self", "Rng", "ok")
RR_RefRawErr == Impl("RR.RefRawErr", "RawErr", "wrap", "Ref", "RawErr", "inner", "RawErr", "id")
RR_AsRng == Impl("RR.AsRng", "Rng", "wrap", "AsRng", "RawErr", "inner", "RawErr", "unwrap")
RR_TestRng == Prim("RR.TestRng", "Rng", "TestRng")
RR_TestCRng == Prim("RR.TestCRng", "RawErr", "TestCRng")
\* `impl Rng for EmptyRng {}`: the default body of Rng::next_u32,
\* self.try_next_u32().unwrap_or_else(|e| e)
RR_EmptyRng == Impl("RR.EmptyRng", "Rng", "base", "EmptyRng", "none", "self", "RawNever", "never")

\* ---- raw_explicit.rs (RawErr is RawRng<Error>; trait Rng: RawRng<!>)
RE_RngIsRawNever == Impl("RE.RngIsRawNever", "RawNever", "any", "R", "Rng", "self", "Rng", "ok")
\* Inside the impl the bound R: RawRng<!> decides `self.try_next_u32()`.
RE_RawNeverIsRawErr == Impl("RE.RawNeverIsRawErr", "RawErr", "any", "R", "RawNever", "self", "RawNever", "map_err")
RE_AsRng == Impl("RE.AsRng", "Rng", "wrap", "AsRng", "RawErr", "inner", "RawErr", "unwrap")
RE_TestRng == Prim("RE.TestRng", "Rng", "TestRng")
RE_TestICRng == Prim("RE.TestICRng", "Rng", "TestICRng")
RE_TestFCRng == Prim("RE.TestFCRng", "RawErr", "TestFCRng")
\* `impl Rng for EmptyRng {}`: the default body of Rng::next_u32
RE_EmptyRng == Impl("RE.EmptyRng", "Rng", "base", "EmptyRng", "none", "self", "RawNever", "never")

\* The name each design gives its fallible capability.
Secure(D) == IF D \in {"raw_rng", "raw_explicit"} THEN "RawErr" ELSE "CryptoRng"

\* Generators a user of the library writes: one that counts, and a secure one
\* that fails on odd states. extends_Rng.rs makes every CryptoRng write a
\* next_u32 of its own, so no library code stands between it and its failure.
\* Where Rng::next_u32 has a default body, one that leaves the impl empty.
EnvImpls(D) ==
    {Prim("env.CounterRng", "Rng", "CounterRng")}
    \cup (IF D = "extends_Rng" THEN {}
          ELSE {Prim("env.FailCRng", Secure(D), "FailCRng")})
    \cup (CASE D = "raw_rng" -> {RR_EmptyRng}
            [] D = "raw_explicit" -> {RE_EmptyRng}
            [] OTHER -> {})

\* The explicit design with the blanket impl of separate_implicit_Rng.rs added.
SeparateExplicitWithBlanket ==
    {SE_RefCryptoRng, SE_RefRng, SE_AsRng, SE_AsCRng, SE_TestRng, SE_TestCRng,
     SE_TestBothRng_Rng, SE_TestBothRng_CryptoRng, SI_RngIsCryptoRng}
SeparateExplicit ==
    {SE_RefCryptoRng, SE_RefRng, SE_AsRng, SE_AsCRng, SE_TestRng, SE_TestCRng,
     SE_TestBothRng_Rng, SE_TestBothRng_CryptoRng}
SeparateImplicit == {SI_RngIsCryptoRng, SI_RefRng, SI_AsRng, SI_TestRng, SI_TestCRng}
SeparateImplicit2 ==
    {SI2_CryptoRngIsRng, SI2_RefCryptoRng, SI2_AsCRng, SI2_TestRng, SI2_TestCRng}
SeparateImplicit3 ==
    {SI3_CryptoRngIsRng, SI3_RefCryptoRng, SI3_AsCRng, SI3_AsCRngRef, SI3_TestRng,
     SI3_TestCRng}
ExtendsCryptoRng2 == {EC2_RngIsCryptoRng, EC2_RefRng, EC2_AsRng, EC2_TestRng, EC2_TestCRng}
ExtendsCryptoRng3 == {EC3_RngIsCryptoRng, EC3_AsRRng, EC3_TestRng, EC3_TestCRng}
ExtendsRng ==
    {ER_RefRng, ER_AsCRng_Rng, ER_AsCRng_CryptoRng, ER_TestRng, ER_TestCRng_Rng,
     ER_TestCRng_CryptoRng}
RawRngImpls == {RR_RngIsRawNever, RR_RefRawErr, RR_AsRng, RR_TestRng, RR_TestCRng}
RawExplicit ==
    {RE_RngIsRawNever, RE_RawNeverIsRawErr, RE_AsRng, RE_TestRng, RE_TestICRng,
     RE_TestFCRng}

Designs ==
    {"separate_explicit_Rng", "separate_implicit_Rng", "separate_implicit_Rng2",
     "separate_implicit_Rng3", "extends_CryptoRng2", "extends_CryptoRng3",
     "extends_Rng", "raw_rng", "raw_explicit"}

LibImpls(D) ==
    CASE D = "separate_explicit_Rng" -> SeparateExplicit
      [] D = "separate_implicit_Rng" -> SeparateImplicit
      [] D = "separate_implicit_Rng2" -> SeparateImplicit2
      [] D = "separate_implicit_Rng3" -> SeparateImplicit3
      [] D = "extends_CryptoRng2" -> ExtendsCryptoRng2
      [] D = "extends_CryptoRng3" -> ExtendsCryptoRng3
      [] D = "extends_Rng" -> ExtendsRng
      [] D = "raw_rng" -> RawRngImpls
      [] D = "raw_explicit" -> RawExplicit
      [] OTHER -> {}

ImplTable == [D \in Designs |-> LibImpls(D) \cup EnvImpls(D)]

\* Every impl in force under design D.
Impls(D) == ImplTable[D]

\* The concrete generator types of a design.
BaseTypes(D) == {i.name : i \in {j \in Impls(D) : j.pat = "base"}}

\* The adaptor constructors of a design: the layer, the trait its argument
\* must implement, and whether it takes `rng: &'a mut CR` rather than `rng: CR`.
Adaptor(layer, bound, byref) == [layer |-> layer, bound |-> bound, byref |-> byref]

Adaptors(D) ==
    CASE D = "separate_explicit_Rng" ->
           {Adaptor("AsRng", "CryptoRng", FALSE), Adaptor("AsCRng", "Rng", FALSE)}
      [] D = "separate_implicit_Rng" -> {Adaptor("AsRng", "CryptoRng", FALSE)}
      [] D = "separate_implicit_Rng2" -> {Adaptor("AsCRng", "Rng", FALSE)}
      [] D = "separate_implicit_Rng3" ->
           {Adaptor("AsCRng", "Rng", FALSE), Adaptor("AsCRngRef", "Rng", TRUE)}
      [] D = "extends_CryptoRng2" -> {Adaptor("AsRng", "CryptoRng", FALSE)}
      [] D = "extends_CryptoRng3" -> {Adaptor("AsRRng", "CryptoRng", TRUE)}
      [] D = "extends_Rng" -> {Adaptor("AsCRng", "Rng", FALSE)}
      [] D = "raw_rng" -> {Adaptor("AsRng", "RawErr", FALSE)}
      [] D = "raw_explicit" -> {Adaptor("AsRng", "RawErr", TRUE)}
      [] OTHER -> {}

\* The traits a trait object can be made of, and each trait's supertraits.
ObjectTraits(D) == {"Rng", Secure(D)}

Supers(D, tr) ==
    CASE D \in {"extends_CryptoRng2", "extends_CryptoRng3"} /\ tr = "Rng" -> {"CryptoRng"}
      [] D = "extends_Rng" /\ tr = "CryptoRng" -> {"Rng"}
      [] D \in {"raw_rng", "raw_explicit"} /\ tr = "Rng" -> {"RawNever"}
      [] OTHER -> {}

\* -------------------------------------------------- Part II: resolution

IsDyn(layer) == layer \in {"Dyn:Rng", "Dyn:CryptoRng", "Dyn:RawErr"}

DynLayer(tr) ==
    CASE tr = "Rng" -> "Dyn:Rng"
      [] tr = "CryptoRng" -> "Dyn:CryptoRng"
      [] tr = "RawErr" -> "Dyn:RawErr"

DynTrait(layer) ==
    CASE layer = "Dyn:Rng" -> "Rng"
      [] layer = "Dyn:CryptoRng" -> "CryptoRng"
      [] layer = "Dyn:RawErr" -> "RawErr"

\* dyn T answers T's methods and its supertraits' through its vtable.
ObjectCandidate(D, tr, ty) ==
    /\ IsDyn(Head(ty))
    /\ tr \in {DynTrait(Head(ty))} \cup Supers(D, DynTrait(Head(ty)))

\* Whether type ty implements trait tr under design D.
RECURSIVE Implements(_, _, _)
Implements(D, tr, ty) ==
    \/ ObjectCandidate(D, tr, ty)
    \/ \E i \in Impls(D) :
         /\ i.tr = tr
         /\ CASE i.pat = "base" -> ty = <<i.name>>
              [] i.pat = "wrap" ->
                   Len(ty) > 1 /\ Head(ty) = i.name /\ Implements(D, i.bound, Tail(ty))
              [] i.pat = "any" -> Implements(D, i.bound, ty)

\* The impl blocks that give ty the trait tr.
Candidates(D, tr, ty) ==
    {i \in Impls(D) :
        /\ i.tr = tr
        /\ CASE i.pat = "base" -> ty = <<i.name>>
             [] i.pat = "wrap" ->
                  Len(ty) > 1 /\ Head(ty) = i.name /\ Implements(D, i.bound, Tail(ty))
             [] i.pat = "any" -> Implements(D, i.bound, ty)}

\* A vtable entry that leads back to the trait object.
VtableOnSelf(tr) == Impl("dyn", tr, "wrap", "Dyn", tr, "self", tr, "id")

\* The vtable entry of dyn T for trait tr: the concrete type's own tr.
Vtable(tr) == Impl("dyn", tr, "wrap", "Dyn", tr, "inner", tr, "id")

\* The body a call of trait tr on a ty runs. A trait object is served by its
\* vtable; any other type by the one impl that applies.
Select(D, tr, ty) ==
    IF ObjectCandidate(D, tr, ty) THEN Vtable(tr)
    ELSE CHOOSE i \in Candidates(D, tr, ty) : TRUE

\* ------------------------------------------------------ Part II: running

Out(k, v) == [k |-> k, v |-> v]

\* A generator's own next word from state s: [out, st].
\* The Test* generators return self.0 and keep it; CounterRng returns its
\* count and steps; FailCRng fails on odd states and steps.
OwnWord(name, tr, s) ==
    CASE name = "CounterRng" -> [out |-> Out("val", s), st |-> s + 1]
      [] name = "FailCRng" ->
           [out |-> IF s % 2 = 1 THEN Out("Err", 0) ELSE Out("Ok", s), st |-> s + 1]
      [] OTHER -> [out |-> Out(IF tr = "Rng" THEN "val" ELSE "Ok", s), st |-> s]

\* What a body makes of its callee's result r.
\*   id                 passes it on
\*   ok                 Ok(r)
\*   unwrap             r.unwrap(): the word, or a panic on Err
\*   never              r.unwrap_or_else(|e| e) on Result<u32, !>
\*   map_err            r.map_err(|e| e) on Result<u32, !>
\*   unwrap_or_default  r.unwrap_or_default(): the word, or 0 on Err
Post(post, r) ==
    CASE r.k \in {"panic", "diverge"} -> r
      [] post = "id" -> r
      [] post = "ok" -> Out("Ok", r.v)
      [] post = "unwrap" -> IF r.k = "Ok" THEN Out("val", r.v) ELSE Out("panic", 0)
      [] post = "never" -> Out("val", r.v)
      [] post = "map_err" -> r
      [] post = "unwrap_or_default" -> IF r.k = "Ok" THEN Out("val", r.v) ELSE Out("val", 0)

\* An adaptor that works on a copy of the generator it was given.
FieldRngCopied(s, t) == s

\* The state of the generator behind `self.rng` (or `*self`) after a call on
\* it that began in state s and left its receiver in state t: the field is
\* the generator, or a mutable borrow of it, so the call changed it in place.
FieldRng(s, t) == t

\* The call <ty as tr>::method from generator state s, run to its end:
\*   out    what it returns ("val", "Ok", "Err"), or "panic", or "diverge"
\*          when the call re-enters itself with nothing changed
\*   st     the generator state afterwards
\*   draws  how often the generator's own method ran
\*   path   the bodies entered, outermost first
\*   esc    the body whose unwrap panicked
\*   own    what the generator's own method returned
\* `seen` holds the calls in progress.
RECURSIVE Exec(_, _, _, _, _)
Exec(D, tr, ty, s, seen) ==
    IF <<tr, Len(ty)>> \in seen
    THEN [out |-> Out("diverge", 0), st |-> s, draws |-> 0, path |-> <<>>,
          esc |-> "none", own |-> Out("none", 0)]
    ELSE
      LET i == Select(D, tr, ty) IN
      IF i.on = "prim"
      THEN LET w == OwnWord(i.name, tr, s) IN
           [out |-> w.out, st |-> w.st, draws |-> 1, path |-> <<i.id>>,
            esc |-> "none", own |-> w.out]
      ELSE LET r == Exec(D, i.callee, IF i.on = "inner" THEN Tail(ty) ELSE ty, s,
                         seen \cup {<<tr, Len(ty)>>})
               o == Post(i.post, r.out)
           IN [out |-> o,
               st |-> IF i.on = "inner" /\ i.name # "Dyn" THEN FieldRng(s, r.st) ELSE r.st,
               draws |-> r.draws,
               path |-> <<i.id>> \o r.path,
               esc |-> IF o.k = "panic" /\ r.out.k # "panic" THEN i.id ELSE r.esc,
               own |-> r.own]

\* ------------------------------------------------------- Part II: steps

\* Layers a type may carry above its generator, and the seeds tried.
MaxLayers == 3
MaxSeed == 1
MaxDCalls == 2

\* Part I at rest but for the byte order of the target.
FRest ==
    /\ rng = [ty |-> "TestRng", w |-> HelloWord, n |-> 0]
    /\ pc = "idle"
    /\ op = "fill"
    /\ L = 0
    /\ heap = Heap0
    /\ p = 0
    /\ len = 0
    /\ ret = "none"
    /\ calls = 0
    /\ drawn = <<>>
    /\ iters = 0
    /\ writes = NoWrites
    /\ copy = NoCopy
    /\ rng0 = rng
    /\ prev = NoPrev

\* Part I at rest, while Part II runs.
FIdle ==
    /\ host = "le"
    /\ FRest

\* `let mut t = TestRng(13);` under one of the designs.
DInit ==
    /\ FIdle
    /\ HIdle
    /\ design \in Designs
    /\ \E b \in BaseTypes(design) : obj = <<b>>
    /\ gst \in 0 .. MaxSeed
    /\ last = NoCall
    /\ ncalls = 0
    /\ aborted = FALSE
    /\ seed0 = gst
    /\ ndraws = 0
    /\ nbridged = 0

Building == ~aborted /\ ncalls = 0 /\ Len(obj) <= MaxLayers

\* `&mut x`, of a value that is not itself a borrow
Borrow ==
    /\ Building
    /\ Head(obj) # "Ref"
    /\ obj' = <<"Ref">> \o obj
    /\ UNCHANGED <<design, gst, last, ncalls, aborted, seed0, ndraws, nbridged>>
    /\ UNCHANGED <<fvars, hvars>>

\* `x as &mut Trait`: a reference to a sized value of a type that implements
\* the trait becomes a reference to the trait object.
Coerce ==
    /\ Building
    /\ Len(obj) > 1
    /\ Head(obj) = "Ref"
    /\ ~IsDyn(Head(Tail(obj)))
    /\ \E tr \in ObjectTraits(design) :
          /\ Implements(design, tr, Tail(obj))
          /\ obj' = <<"Ref", DynLayer(tr)>> \o Tail(obj)
    /\ UNCHANGED <<design, gst, last, ncalls, aborted, seed0, ndraws, nbridged>>
    /\ UNCHANGED <<fvars, hvars>>

\* as_rng(x), as_crng(x), as_rng_ref(&mut x), as_crng_ref(&mut x)
Adapt ==
    /\ Building
    /\ \E a \in Adaptors(design) :
          IF a.byref
          THEN /\ Len(obj) > 1
               /\ Head(obj) = "Ref"
               /\ Implements(design, a.bound, Tail(obj))
               /\ obj' = <<a.layer>> \o Tail(obj)
          ELSE /\ Implements(design, a.bound, obj)
               /\ obj' = <<a.layer>> \o obj
    /\ UNCHANGED <<design, gst, last, ncalls, aborted, seed0, ndraws, nbridged>>
    /\ UNCHANGED <<fvars, hvars>>

\* The outermost adaptor or borrow ends; what it wrapped is at hand again.
\* (A by-reference adaptor over a trait object leaves the reference to it.)
Release ==
    /\ ~aborted
    /\ ncalls < MaxDCalls
    /\ Len(obj) > 1
    /\ obj' = IF IsDyn(Head(Tail(obj))) THEN <<"Ref">> \o Tail(obj) ELSE Tail(obj)
    /\ obj' # obj
    /\ UNCHANGED <<design, gst, last, ncalls, aborted, seed0, ndraws, nbridged>>
    /\ UNCHANGED <<fvars, hvars>>

\* The types a method call on a value of type ty can take as Self: ty, or,
\* through a reference, what it refers to (`cr.try_next_u32()` on
\* cr: &mut CryptoRng runs the trait object's method).
SelfTypes(ty) == {ty} \cup (IF Head(ty) = "Ref" THEN {Tail(ty)} ELSE {})

Traits == {"Rng", "CryptoRng", "RawNever", "RawErr"}

\* An adaptor that holds a borrow of what it wraps: AsRRng<'a, CR> and the
\* like by their field, AsRng<&mut CR> and the like by their argument.
OverBorrow(D, ty) ==
    /\ Len(ty) > 1
    /\ \E a \in Adaptors(D) :
          /\ a.layer = Head(ty)
          /\ a.byref \/ ty[2] = "Ref"

\* x.next_u32() or x.try_next_u32(), as trait tr's method with Self = self.
DCall ==
    /\ ~aborted
    /\ ncalls < MaxDCalls
    /\ \E tr \in Traits, self \in SelfTypes(obj) :
          /\ Implements(design, tr, self)
          /\ LET r == Exec(design, tr, self, gst, {}) IN
             /\ last' = [tr |-> tr, ty |-> self, pre |-> gst, out |-> r.out,
                         st |-> r.st, draws |-> r.draws, path |-> r.path,
                         esc |-> r.esc, own |-> r.own]
             /\ gst' = r.st
             /\ aborted' = (r.out.k \in {"panic", "diverge"})
             /\ ndraws' = ndraws + r.draws
             /\ nbridged' = nbridged + (IF OverBorrow(design, self) THEN 1 ELSE 0)
    /\ ncalls' = ncalls + 1
    /\ UNCHANGED <<design, obj, seed0>>
    /\ UNCHANGED <<fvars, hvars>>

DNext == Borrow \/ Coerce \/ Adapt \/ Release \/ DCall

SpecDispatch == DInit /\ [][DNext]_vars


\* ------------------------------------------------------- Part I: claims

Ceil(a, b) == (a + b - 1) \div b

\* The little-endian serialization of a u64: least significant byte first.
LeBytes(w) == [i \in 1 .. WordBytes |-> w[i]]

RECURSIVE Concat(_)
Concat(ws) == IF ws = <<>> THEN <<>> ELSE LeBytes(Head(ws)) \o Concat(Tail(ws))

\* The first k words a generator yields from state g.
RECURSIVE Draws(_, _)
Draws(g, k) ==
    IF k = 0 THEN <<>> ELSE <<NextU64(g)[1]>> \o Draws(NextU64(g)[2], k - 1)

\* The destination slice as the caller sees it.
Dest == [i \in 1 .. L |-> heap[i - 1]]

Truncated(bytes, n) == [i \in 1 .. n |-> bytes[i]]

\* C1: when fill is over, the destination holds the little-endian bytes of
\* ceil(L/8) successive next_u64 draws, cut to L bytes; the generator whose
\* word is 0x20216F6C6C6548, filled into 16 bytes, leaves that word's bytes
\* twice.
C1_FillDeterminism ==
    pc \in {"done", "panic"} =>
        /\ drawn = Draws(rng0, Ceil(L, WordBytes))
        /\ Dest = Truncated(Concat(drawn), L)
        /\ (rng0.ty = "TestRng" /\ L = 2 * WordBytes
              => Dest = HelloWord \o HelloWord)

C1_Witness ==
    /\ pc = "done"
    /\ host = "be"
    /\ rng0.ty = "TestRng"
    /\ L = 16
    /\ Dest = <<72, 101, 108, 108, 111, 33, 32, 0,
                72, 101, 108, 108, 111, 33, 32, 0>>

\* C2: fill on an empty destination returns normally, draws no word, copies
\* no byte and leaves the generator as it was.
C2_EmptyFillReturns ==
    (L = 0 /\ pc \notin {"idle", "entry"}) =>
        /\ pc # "panic"
        /\ drawn = <<>>
        /\ writes = NoWrites
        /\ rng = rng0

\* C3: every copy reads source offsets [0, n) and writes destination offsets
\* [written, written + n) with n = min(r, 8); nothing at or past L is ever
\* written, and when the loop has ended each of 0 .. L-1 was written once.
C3_CopyInBounds ==
    /\ \A a \in L .. HeapSize - 1 : writes[a] = 0
    /\ copy.n = Min(copy.r, WordBytes)
    /\ copy.src <= WordBytes
    /\ copy.n > 0 => copy.dst = L - copy.r
    /\ copy.dst + copy.n <= L
    /\ pc = "done" => \A a \in 0 .. L - 1 : writes[a] = 1

C3_Witness ==
    /\ pc = "done"
    /\ L = 17
    /\ copy = [r |-> 1, n |-> 1, src |-> 1, dst |-> 16]
    /\ writes[16] = 1

\* C4: each iteration draws one word and shrinks the remaining length; the
\* loop runs ceil(L/8) times; a call that has begun ends.
C4_FillTerminates ==
    /\ [][(pc = "loop" /\ iters' # iters) =>
            /\ iters' = iters + 1
            /\ Len(drawn') = Len(drawn) + 1
            /\ len' < len
            /\ len' >= 0]_vars
    /\ [](pc = "done" =>
            /\ iters = Ceil(L, WordBytes)
            /\ Len(drawn) = iters
            /\ len = 0)
    /\ ((pc = "entry") ~> (pc \in {"done", "panic"}))

C4_Witness ==
    /\ pc = "done"
    /\ L = 17
    /\ iters = 3
    /\ Len(drawn) = 3

\* ------------------------------------------------------ Part II: claims

SecureTraits == {"CryptoRng", "RawErr"}

\* The impl with a given id under the design in force.
ImplOf(id) == CHOOSE i \in Impls(design) \cup {Vtable(tr) : tr \in Traits} : i.id = id

\* The type a body's callee runs on.
CalleeType(i, ty) == IF i.on = "inner" THEN Tail(ty) ELSE ty

\* C5: a secure generator made basic, by the AsRng / AsRRng adaptor or by an
\* automatic Rng-from-CryptoRng impl, returns v when the wrapped
\* try_next_u32 returns Ok(v) and panics when it returns Err.
C5_BasicFromSecure ==
    (last.tr = "Rng" /\ ~ObjectCandidate(design, "Rng", last.ty)) =>
        LET i == Select(design, "Rng", last.ty) IN
        (i.on # "prim" /\ i.callee \in SecureTraits) =>
            LET w == Exec(design, i.callee, CalleeType(i, last.ty), last.pre, {}) IN
            /\ w.out.k = "Ok" => (last.out = Out("val", w.out.v) /\ last.st = w.st)
            /\ w.out.k = "Err" => last.out.k = "panic"
            /\ last.out.k = "val" => w.out = Out("Ok", last.out.v)

C5_Witness ==
    /\ design = "separate_explicit_Rng"
    /\ last.tr = "Rng"
    /\ last.ty = <<"AsRng", "FailCRng">>
    /\ last.pre = 1
    /\ last.out.k = "panic"

\* C6: try_next_u32 on the AsCRng / AsCRngRef adaptor returns Ok(v), v being
\* what next_u32 on the wrapped generator returns from the same state, and
\* never Err.
C6_SecureFromBasic ==
    (last.tr \in SecureTraits /\ Head(last.ty) \in {"AsCRng", "AsCRngRef"}) =>
        LET w == Exec(design, "Rng", Tail(last.ty), last.pre, {}) IN
        /\ last.out.k # "Err"
        /\ w.out.k = "val" =>
             /\ last.out = Out("Ok", w.out.v)
             /\ last.st = w.st
             /\ last.draws = w.draws
        /\ w.out.k = "panic" => last.out.k = "panic"
        /\ last.out.k \in {"Ok", "panic"}

C6_Witness ==
    /\ design = "separate_implicit_Rng3"
    /\ last.tr = "CryptoRng"
    /\ last.ty = <<"AsCRngRef", "Dyn:Rng", "CounterRng">>
    /\ last.pre = 1
    /\ last.out = Out("Ok", 1)
    /\ last.st = 2

\* A type with its trait objects replaced by the concrete types behind them.
Erase(ty) == SelectSeq(ty, LAMBDA l : ~IsDyn(l))

\* C7: a call through a trait object, or through an adaptor around one,
\* returns what the statically dispatched call returns from the same state
\* and leaves the generator in the same state.
C7_DynLikeStatic ==
    (last.tr # "none" /\ Erase(last.ty) # last.ty) =>
        /\ Implements(design, last.tr, Erase(last.ty))
        /\ LET w == Exec(design, last.tr, Erase(last.ty), last.pre, {}) IN
           /\ last.out = w.out
           /\ last.st = w.st
           /\ last.draws = w.draws

C7_Witness ==
    /\ design = "separate_explicit_Rng"
    /\ last.tr = "Rng"
    /\ last.ty = <<"AsRng", "Ref", "Dyn:CryptoRng", "FailCRng">>
    /\ last.out = Out("val", 0)
    /\ last.st = 1

\* The generators with an impl block of their own for both capabilities.
NativeBoth(D) ==
    {b \in BaseTypes(D) :
        /\ \E i \in LibImpls(D) : i.pat = "base" /\ i.name = b /\ i.tr = "Rng"
        /\ \E i \in LibImpls(D) : i.pat = "base" /\ i.name = b /\ i.tr = Secure(D)}

\* The traits whose method of the same name a type answers.
SameNameTraits(D, tr, ty) ==
    {t \in Traits : (t = "Rng") = (tr = "Rng") /\ Implements(D, t, ty)}

C9_ErrNeverSwallowed ==
    /\ last.own.k = "Err" => last.out.k \in {"Err", "panic"}
    /\ \A k \in 1 .. Len(last.path) :
          ImplOf(last.path[k]).post = "ok" => ImplOf(last.path[k]).callee = "Rng"

C9_Witness ==
    /\ design = "raw_rng"
    /\ last.tr = "RawErr"
    /\ last.ty = <<"Ref", "Dyn:RawErr", "FailCRng">>
    /\ last.own.k = "Err"
    /\ last.out.k = "Err"

\* The bodies that turn Err into a panic by design: the AsRng / AsRRng
\* adaptors and the impls that give Rng to a secure generator or to a
\* reference to one.
EscalatingByDesign(i) ==
    /\ i.tr = "Rng"
    /\ i.callee \in SecureTraits
    /\ \/ i.pat = "wrap" /\ i.name \in {"AsRng", "AsRRng", "Ref"}
       \/ i.pat = "any"

\* C10: a panic comes only out of the AsRng adaptor or an automatic
\* Rng-from-CryptoRng impl; under separate_explicit_Rng.rs only out of AsRng,
\* so a call on a type with no AsRng layer never panics.
C10_EscalationOnlyInAsBasic ==
    /\ last.out.k = "panic" => EscalatingByDesign(ImplOf(last.esc))
    /\ design = "separate_explicit_Rng" =>
          /\ last.out.k = "panic" => last.esc = "SE.AsRng"
          /\ (last.tr # "none" /\ \A k \in 1 .. Len(last.ty) : last.ty[k] # "AsRng")
                => last.out.k # "panic"

C10_Witness ==
    /\ design = "extends_CryptoRng2"
    /\ last.ty = <<"Ref", "FailCRng">>
    /\ last.tr = "Rng"
    /\ last.out.k = "panic"
    /\ last.esc = "EC2.RefRng"

\* The two directions a capability can be converted in.
Directions == {"toBasic", "toSecure"}

\* An impl that converts in direction dir without the caller naming an
\* adaptor: a blanket impl, an impl for &mut X, or a default method body.
ImplicitIn(i, dir) ==
    /\ i.on # "prim"
    /\ ~(i.pat = "wrap" /\ i.name # "Ref")
    /\ IF dir = "toBasic"
       THEN i.tr = "Rng" /\ i.callee \in SecureTraits
       ELSE i.tr \in SecureTraits /\ i.callee \in {"Rng", "RawNever"}

\* An adaptor struct that converts in direction dir.
ExplicitIn(a, dir) ==
    IF dir = "toBasic" THEN a.bound \in SecureTraits ELSE a.bound = "Rng"

\* C11: in each direction a design has an implicit conversion or an adaptor,
\* never both.
C11_ImplicitOrExplicit ==
    \A dir \in Directions :
        ~ /\ \E i \in LibImpls(design) : ImplicitIn(i, dir)
          /\ \E a \in Adaptors(design) : ExplicitIn(a, dir)

\* A blanket impl or a default body that gives a fallible capability.
AutoSecure(i) ==
    /\ i.tr \in SecureTraits \cup {"RawNever"}
    /\ i.pat = "any" \/ (i.pat = "base" /\ i.on = "self")

\* C12: where try_next_u32 is derived from next_u32 automatically (a blanket
\* impl or the default body), it returns Ok(v), v and the state after being
\* those of next_u32 on the same generator from the same state, with as many
\* draws (one on a concrete generator); it never returns Err and panics only
\* where that next_u32 panics.
C12_SecureDerivedFromBasic ==
    (/\ last.tr \in SecureTraits \cup {"RawNever"}
     /\ ~ObjectCandidate(design, last.tr, last.ty)
     /\ AutoSecure(Select(design, last.tr, last.ty))
     /\ Implements(design, "Rng", last.ty)) =>
            LET w == Exec(design, "Rng", last.ty, last.pre, {}) IN
            /\ last.out.k # "Err"
            /\ w.out.k = "val" =>
                  /\ last.out = Out("Ok", w.out.v)
                  /\ last.st = w.st
                  /\ last.draws = w.draws
            /\ (Len(last.ty) = 1 /\ w.out.k = "val") => last.draws = 1
            /\ (last.out.k = "panic") = (w.out.k = "panic")
            /\ (last.out.k = "diverge") = (w.out.k = "diverge")
            /\ last.out.k \in {"Ok", "panic", "diverge"}

C12_Witness ==
    /\ design = "raw_explicit"
    /\ last.tr = "RawErr"
    /\ last.ty = <<"CounterRng">>
    /\ last.pre = 1
    /\ last.out = Out("Ok", 1)
    /\ last.st = 2
    /\ last.path = <<"RE.RawNeverIsRawErr", "RE.RngIsRawNever", "env.CounterRng">>

\* The state of generator b after k runs of its own method from state s.
RECURSIVE Advance(_, _, _)
Advance(b, s, k) ==
    IF k = 0 THEN s ELSE Advance(b, OwnWord(b, "Rng", s).st, k - 1)

\* C13: an adaptor over a borrow keeps no state of its own. A call through
\* it runs the generator's own method once; after any calls, through adaptors
\* or not, the generator is where as many direct calls would have left it,
\* and a direct call made after the adaptor is gone returns what the
\* generator returns from there.
C13_BorrowingBridgeStateless ==
    /\ (last.tr # "none" /\ OverBorrow(design, last.ty) /\ last.out.k # "diverge")
          => last.draws = 1
    /\ last.out.k # "diverge" => ndraws = ncalls
    /\ gst = Advance(obj[Len(obj)], seed0, ndraws)
    /\ (last.tr # "none" /\ Len(last.ty) = 1) =>
          /\ last.pre = Advance(last.ty[1], seed0, ndraws - last.draws)
          /\ Len(last.path) = 1 => last.out = OwnWord(last.ty[1], last.tr, last.pre).out

C13_Witness ==
    /\ design = "extends_CryptoRng3"
    /\ seed0 = 0
    /\ ncalls = 2
    /\ nbridged = 1
    /\ last.ty = <<"FailCRng">>
    /\ last.pre = 1
    /\ last.out.k = "Err"

\* ----------------------------------------------- Part I: further claims

\* C14: the default try_fill does what fill does: on the same generator and
\* destination it leaves the bytes and the generator that fill leaves, returns
\* Ok(()) where fill returns, panics where fill panics, and never returns Err.
C14_TryFillIsFill ==
    pc \in {"done", "panic"} =>
        LET f == ImplFillFromU64(host, rng0, Heap0, L) IN
        /\ (pc = "panic") = (f.k = "panic")
        /\ pc = "done" => ret = (IF op = "try_fill" THEN "Ok" ELSE "unit")
        /\ ret # "Err"
        /\ heap = f.heap
        /\ rng = f.rng
        /\ Len(drawn) = f.draws

C14_Witness ==
    /\ op = "try_fill"
    /\ pc = "done"
    /\ L = 9
    /\ ret = "Ok"
    /\ rng0.ty = "CounterRng"
    /\ rng0.n = 0
    /\ rng.n = 2

\* The bytes of two successive fills, one after the other.
TwoFills == prev.dest \o Dest

\* The bytes of one fill of both lengths together, from the generator as it
\* was before the first of the two.
OneFill ==
    LET f == ImplFillFromU64(host, prev.rng0, Heap0, prev.L + L)
    IN [i \in 1 .. prev.L + L |-> f.heap[i - 1]]

OwnRng(D, b) == {i \in Impls(D) : i.pat = "base" /\ i.name = b /\ i.tr = "Rng"}

\* A generator type that implements Rng and leaves next_u32 to the default.
LeavesDefault(D, b) == \E i \in OwnRng(D, b) : i.on # "prim"

\* C17: under raw_rng.rs and raw_explicit.rs a call of next_u32 or
\* try_next_u32 on a type that implements Rng returns exactly when the type
\* writes next_u32 itself; with an empty impl the default body and the
\* blanket RawRng<!> impl call each other and the generator's own code is
\* never reached.
C17_DefaultNextU32Recurses ==
    (last.tr # "none" /\ Len(last.ty) = 1 /\ OwnRng(design, last.ty[1]) # {}) =>
        /\ (last.out.k = "diverge") = LeavesDefault(design, last.ty[1])
        /\ LeavesDefault(design, last.ty[1]) =>
              /\ design \in {"raw_rng", "raw_explicit"}
              /\ last.draws = 0
              /\ \E j, k \in 1 .. Len(last.path) :
                    /\ ImplOf(last.path[j]).post = "never"
                    /\ ImplOf(last.path[j]).callee = "RawNever"
                    /\ ImplOf(last.path[k]).tr = "RawNever"
                    /\ ImplOf(last.path[k]).callee = "Rng"
              /\ last.st = last.pre
        /\ ~LeavesDefault(design, last.ty[1]) => last.out.k \in {"val", "Ok"}

C17_Witness ==
    /\ design = "raw_explicit"
    /\ last.ty = <<"EmptyRng">>
    /\ last.tr = "RawErr"
    /\ last.out.k = "diverge"
    /\ last.path = <<"RE.RawNeverIsRawErr", "RE.RngIsRawNever", "RE.EmptyRng">>

\* as_rng(as_crng(r)).next_u32(): AsRng over AsCRng over a basic generator.
BasicRoundTrip ==
    /\ design = "separate_explicit_Rng"
    /\ last.tr = "Rng"
    /\ Len(last.ty) >= 3
    /\ last.ty[1] = "AsRng"
    /\ last.ty[2] = "AsCRng"

\* C19 as written: as_rng(as_crng(r)).next_u32() returns what r.next_u32()
\* returns from the same state, draws once on r, and can never panic.
C19_RoundTripNeverAborts ==
    BasicRoundTrip =>
        LET w == Exec(design, "Rng", Tail(Tail(last.ty)), last.pre, {}) IN
        /\ last.out.k = "val"
        /\ w.out.k = "val" => last.out = w.out
        /\ last.draws = 1

\* C19, amended: as_rng(as_crng(r)).next_u32() ends as r.next_u32() ends
\* from the same state (the same word, or a panic where r.next_u32() itself
\* panics), leaves r in the same state, and calls r.next_u32() once; the
\* unwrap of the outer AsRng never panics, the inner AsCRng never yielding
\* Err.
C19_BasicRoundTrip ==
    BasicRoundTrip =>
        LET w == Exec(design, "Rng", Tail(Tail(last.ty)), last.pre, {}) IN
        /\ last.out = w.out
        /\ last.st = w.st
        /\ last.draws = 1
        /\ last.path = <<"SE.AsRng", "SE.AsCRng">> \o w.path
        /\ last.esc = w.esc

C19_Witness ==
    /\ BasicRoundTrip
    /\ last.ty = <<"AsRng", "AsCRng", "CounterRng">>
    /\ last.pre = 1
    /\ last.out = Out("val", 1)
    /\ last.st = 2
    /\ last.draws = 1

\* as_crng(as_rng(c)).try_next_u32(): AsCRng over AsRng over a secure
\* generator.
SecureRoundTrip ==
    /\ design = "separate_explicit_Rng"
    /\ last.tr = "CryptoRng"
    /\ Len(last.ty) >= 3
    /\ last.ty[1] = "AsCRng"
    /\ last.ty[2] = "AsRng"

\* C20: as_crng(as_rng(c)).try_next_u32() returns Ok(v) when
\* c.try_next_u32() returns Ok(v) from the same state, panics (in the unwrap
\* of the inner AsRng) when it returns Err, and never returns Err.
C20_SecureRoundTrip ==
    SecureRoundTrip =>
        LET w == Exec(design, "CryptoRng", Tail(Tail(last.ty)), last.pre, {}) IN
        /\ last.out.k # "Err"
        /\ w.out.k = "Ok" => (last.out = w.out /\ last.st = w.st)
        /\ w.out.k = "Err" =>
              /\ last.out.k = "panic"
              /\ last.esc = "SE.AsRng"
              /\ last.st = w.st
        /\ last.out.k = "Ok" => w.out = last.out
        /\ last.path = <<"SE.AsCRng", "SE.AsRng">> \o w.path

C20_Witness ==
    /\ SecureRoundTrip
    /\ last.ty = <<"AsCRng", "AsRng", "FailCRng">>
    /\ last.pre = 1
    /\ last.out.k = "panic"
    /\ last.esc = "SE.AsRng"


\* ======================================================================
\* Part III: generators built from impl_fill_from_u64 and
\* impl_next_u64_from_fill (marker_only.rs)
\* ======================================================================

\* Deepest nesting of calls followed, longest destination and number of
\* calls the caller makes.
MaxDepth == 6
MaxHLen == 9
MaxHCalls == 2

\* How a generator type gets its fill: "own" code that writes successive
\* bytes, or impl_fill_from_u64.
\*   WordRng    fill(dest) { impl_fill_from_u64(self, dest) }, own next_u64
\*              (the shape of TestRng)
\*   StreamRng  own fill, next_u64() { impl_next_u64_from_fill(self) }
\*   WrapRng    fill(dest) { impl_fill_from_u64(&mut self.0, dest) } over a
\*              WordRng, next_u64() { impl_next_u64_from_fill(self) }
\*   LoopRng    both helpers on self
FillImpl(ty) == IF ty = "StreamRng" THEN "own" ELSE "impl_fill_from_u64"

\* A generator type that writes its own next_u64 whatever else it does.
NextImplOwn(ty) == "own"

\* How a generator type gets its next_u64.
NextImpl(ty) == IF ty = "WordRng" THEN "own" ELSE "impl_next_u64_from_fill"

\* The generator impl_fill_from_u64 is handed as `rng`.
FillRng(ty) == IF ty = "WrapRng" THEN "WordRng" ELSE ty

HelperTypes == {"WordRng", "StreamRng", "WrapRng", "LoopRng"}

\* The k-th byte a StreamRng's own fill writes.
StreamByte(k) == (3 * k + 1) % 256

Zeros(n) == [i \in 1 .. n |-> 0]

\* A frame: which method (fn) of which type (ty) runs, where it is (st),
\* its buffer (the local buf of next_u64, the dest of fill), and the locals
\* len and p of impl_fill_from_u64.
Frame(fn, ty, st, buf, l, at) ==
    [fn |-> fn, ty |-> ty, st |-> st, buf |-> buf, len |-> l, at |-> at]

Top == hstack[Len(hstack)]
Pop == SubSeq(hstack, 1, Len(hstack) - 1)
SetTop(f) == [hstack EXCEPT ![Len(hstack)] = f]

\* The process is gone: a panic, a trap, or no stack left.
Dead == hret.k \in {"panic", "trap", "overflow"}

Running == ~Dead /\ hstack # <<>>

\* copy_nonoverlapping(xp, p, n) into a buffer held as a sequence.
CopySeq(buf, xbytes, at, n) ==
    [i \in 1 .. Len(buf) |->
        IF i - 1 >= at /\ i - 1 < at + n /\ i - at <= Len(xbytes)
        THEN xbytes[i - at] ELSE buf[i]]

\* *(&buf[0] as *const u8 as *const u64) followed by .to_le(): the bytes at
\* buf taken as a native u64, then to_le.
FromBuf(h, bytes) == ToLe(h, IF h = "le" THEN bytes ELSE Reverse(bytes))

HInit ==
    /\ host \in {"le", "be"}
    /\ FRest
    /\ DIdle
    /\ hgen \in {[ty |-> t, n |-> 0] : t \in HelperTypes}
    /\ halign \in BOOLEAN
    /\ hstack = <<>>
    /\ hret = NoRet
    /\ hop = "none"
    /\ hcalls = 0
    /\ hgen0 = hgen
    /\ hfills = 0
    /\ hwords = 0
    /\ hbuf = <<>>

\* The caller: g.next_u64()
HCallNext ==
    /\ ~Dead
    /\ hstack = <<>>
    /\ hcalls < MaxHCalls
    /\ hstack' = <<Frame("next_u64", hgen.ty, "call", Zeros(WordBytes), 0, 0)>>
    /\ hop' = "next_u64"
    /\ hret' = NoRet
    /\ hcalls' = hcalls + 1
    /\ hgen0' = hgen
    /\ hfills' = 0
    /\ hwords' = 0
    /\ hbuf' = <<>>
    /\ UNCHANGED <<hgen, halign>>
    /\ UNCHANGED <<fvars, dvars>>

\* The caller: let mut buf = [0u8; n]; g.fill(&mut buf)
HCallFill ==
    /\ ~Dead
    /\ hstack = <<>>
    /\ hcalls < MaxHCalls
    /\ \E n \in 0 .. MaxHLen :
          hstack' = <<Frame("fill", hgen.ty, "call", Zeros(n), n, 0)>>
    /\ hop' = "fill"
    /\ hret' = NoRet
    /\ hcalls' = hcalls + 1
    /\ hgen0' = hgen
    /\ hfills' = 1
    /\ hwords' = 0
    /\ hbuf' = <<>>
    /\ UNCHANGED <<hgen, halign>>
    /\ UNCHANGED <<fvars, dvars>>

\* A next_u64 the generator wrote itself: the next word of its source.
HNextOwn ==
    /\ Running
    /\ Top.fn = "next_u64" /\ Top.st = "call"
    /\ NextImpl(Top.ty) = "own"
    /\ hret' = [k |-> "word", v |-> CounterWord(hgen.n)]
    /\ hgen' = [hgen EXCEPT !.n = hgen.n + 1]
    /\ hwords' = hwords + 1
    /\ hstack' = Pop
    /\ UNCHANGED <<halign, hop, hcalls, hgen0, hfills, hbuf>>
    /\ UNCHANGED <<fvars, dvars>>

\* impl_next_u64_from_fill: let mut buf = [0u8; 8]; rng.fill(&mut buf);
HNextFromFill ==
    /\ Running
    /\ Top.fn = "next_u64" /\ Top.st = "call"
    /\ NextImpl(Top.ty) = "impl_next_u64_from_fill"
    /\ Len(hstack) < MaxDepth
    /\ hstack' = Append(SetTop([Top EXCEPT !.st = "wait"]),
                        Frame("fill", Top.ty, "call", Zeros(WordBytes), WordBytes, 0))
    /\ hfills' = hfills + 1
    /\ UNCHANGED <<hgen, halign, hret, hop, hcalls, hgen0, hwords, hbuf>>
    /\ UNCHANGED <<fvars, dvars>>

\* impl_next_u64_from_fill after fill returned: the bytes of buf read as a
\* u64. buf is a [u8; 8], aligned to 1; the read is of a u64, aligned to 8.
\* Where the build put buf at a multiple of 8 the read is defined; where it
\* did not, the read may give the bytes or trap.
HNextRead ==
    /\ Running
    /\ Top.fn = "next_u64" /\ Top.st = "wait"
    /\ hret.k = "unit"
    /\ \/ hret' = [k |-> "word", v |-> FromBuf(host, hret.v)]
       \/ ~halign /\ hret' = [k |-> "trap", v |-> <<>>]
    /\ hbuf' = IF Len(hstack) = 1 THEN hret.v ELSE hbuf
    /\ hstack' = Pop
    /\ UNCHANGED <<hgen, halign, hop, hcalls, hgen0, hfills, hwords>>
    /\ UNCHANGED <<fvars, dvars>>

\* A fill the generator wrote itself: the next bytes of its source.
HFillOwn ==
    /\ Running
    /\ Top.fn = "fill" /\ Top.st = "call"
    /\ FillImpl(Top.ty) = "own"
    /\ hret' = [k |-> "unit",
                v |-> [i \in 1 .. Len(Top.buf) |-> StreamByte(hgen.n + i - 1)]]
    /\ hgen' = [hgen EXCEPT !.n = hgen.n + Len(Top.buf)]
    /\ hstack' = Pop
    /\ UNCHANGED <<halign, hop, hcalls, hgen0, hfills, hwords, hbuf>>
    /\ UNCHANGED <<fvars, dvars>>

\* impl_fill_from_u64: let mut p = &mut dest[0] ..; let mut len = dest.len();
HFillEntry ==
    /\ Running
    /\ Top.fn = "fill" /\ Top.st = "call"
    /\ FillImpl(Top.ty) = "impl_fill_from_u64"
    /\ IF Len(Top.buf) = 0
       THEN /\ hret' = [k |-> "panic", v |-> <<>>]
            /\ UNCHANGED hstack
       ELSE /\ hstack' = SetTop([Top EXCEPT !.st = "loop", !.len = Len(Top.buf),
                                            !.at = 0])
            /\ UNCHANGED hret
    /\ UNCHANGED <<hgen, halign, hop, hcalls, hgen0, hfills, hwords, hbuf>>
    /\ UNCHANGED <<fvars, dvars>>

\* impl_fill_from_u64, `while len > 0`: rng.next_u64() is called.
HFillDraw ==
    /\ Running
    /\ Top.fn = "fill" /\ Top.st = "loop"
    /\ Top.len > 0
    /\ Len(hstack) < MaxDepth
    /\ hstack' = Append(SetTop([Top EXCEPT !.st = "wait"]),
                        Frame("next_u64", FillRng(Top.ty), "call",
                              Zeros(WordBytes), 0, 0))
    /\ UNCHANGED <<hgen, halign, hret, hop, hcalls, hgen0, hfills, hwords, hbuf>>
    /\ UNCHANGED <<fvars, dvars>>

\* impl_fill_from_u64 after next_u64 returned: to_le, copy, advance.
HFillCopy ==
    /\ Running
    /\ Top.fn = "fill" /\ Top.st = "wait"
    /\ hret.k = "word"
    /\ LET x == ToLe(host, hret.v)
           xbytes == MemBytes(host, x)
           n == CopyLen(Top.len)
       IN hstack' = SetTop([Top EXCEPT !.st = "loop",
                                       !.buf = CopySeq(Top.buf, xbytes, Top.at, n),
                                       !.at = Top.at + n,
                                       !.len = LenAfter(Top.len, n)])
    /\ hret' = NoRet
    /\ UNCHANGED <<hgen, halign, hop, hcalls, hgen0, hfills, hwords, hbuf>>
    /\ UNCHANGED <<fvars, dvars>>

\* impl_fill_from_u64: the loop test fails, fill returns.
HFillExit ==
    /\ Running
    /\ Top.fn = "fill" /\ Top.st = "loop"
    /\ Top.len <= 0
    /\ hret' = [k |-> "unit", v |-> Top.buf]
    /\ hstack' = Pop
    /\ UNCHANGED <<hgen, halign, hop, hcalls, hgen0, hfills, hwords, hbuf>>
    /\ UNCHANGED <<fvars, dvars>>

\* A call is due and the stack has no room for its frame.
HOverflow ==
    /\ Running
    /\ Len(hstack) >= MaxDepth
    /\ \/ Top.fn = "fill" /\ Top.st = "loop" /\ Top.len > 0
       \/ /\ Top.fn = "next_u64" /\ Top.st = "call"
          /\ NextImpl(Top.ty) = "impl_next_u64_from_fill"
    /\ hret' = [k |-> "overflow", v |-> <<>>]
    /\ UNCHANGED <<hgen, halign, hstack, hop, hcalls, hgen0, hfills, hwords, hbuf>>
    /\ UNCHANGED <<fvars, dvars>>

HStep == HNextOwn \/ HNextFromFill \/ HNextRead \/ HFillOwn \/ HFillEntry
         \/ HFillDraw \/ HFillCopy \/ HFillExit \/ HOverflow

HNext == HCallNext \/ HCallFill \/ HNextOwn \/ HNextFromFill \/ HNextRead
         \/ HFillOwn \/ HFillEntry \/ HFillDraw \/ HFillCopy \/ HFillExit
         \/ HOverflow

\* One thread, no suspension point: a call that can step does.
SpecHelpers == HInit /\ [][HNext]_vars /\ WF_vars(HStep)

\* ----------------------------------------------------- Part III: claims

\* The caller's call is over: it returned, or the process died in it.
Ended == hop # "none" /\ hret.k # "none" /\ (hstack = <<>> \/ Dead)

\* What the round trip comes to once the caller's next_u64 is over.
RoundTrip ==
    /\ hret.k = "word"
    /\ hfills = 1
    /\ Len(hbuf) = WordBytes
    /\ LeBytes(hret.v) = hbuf
    /\ hgen0.ty = "WrapRng" =>
          /\ hret.v = CounterWord(hgen0.n)
          /\ hwords = 1
          /\ hgen.n = hgen0.n + 1

\* C15: impl_next_u64_from_fill calls fill once, on 8 bytes, and returns the
\* u64 whose little-endian bytes are those fill wrote; over a fill that is
\* impl_fill_from_u64 on a word source it returns the one word drawn.
C15_NextFromFillRoundTrip ==
    (hop = "next_u64" /\ hgen0.ty \in {"StreamRng", "WrapRng"} /\ Ended) => RoundTrip

\* Where the build aligned buf to 8 the round trip holds.
RoundTripWhereAligned ==
    (hop = "next_u64" /\ hgen0.ty \in {"StreamRng", "WrapRng"} /\ Ended /\ halign)
        => RoundTrip

\* C18: a generator with both helpers on itself never returns from next_u64
\* nor from fill: each call only adds frames until the stack is gone (fill of
\* an empty destination panics first). A generator that writes one of the two
\* methods itself ends every call with no stack lost.
C18_HelpersNeedOneOwnMethod ==
    /\ [](hgen.ty = "LoopRng" => ~(hstack = <<>> /\ hret.k \in {"unit", "word"}))
    /\ [][hgen.ty = "LoopRng" => (Len(hstack') >= Len(hstack) /\ hgen' = hgen)]_vars
    /\ ((hgen.ty = "LoopRng" /\ hstack # <<>> /\ Top.len + Len(Top.buf) > 0)
           ~> (hret.k = "overflow"))
    /\ [](hgen.ty # "LoopRng" => hret.k # "overflow")
    /\ ((hgen.ty # "LoopRng" /\ hstack # <<>>) ~> (hstack = <<>> \/ Dead))

C18_Witness ==
    /\ hgen.ty = "LoopRng"
    /\ hop = "fill"
    /\ Len(hstack) = MaxDepth
    /\ hstack[1].fn = "fill" /\ hstack[1].len = 9
    /\ hstack[2].fn = "next_u64"
    /\ hstack[3].fn = "fill"
    /\ hret.k = "overflow"

====
